---- MODULE Spec2Model ----
(***************************************************************************)
(* Task admission, scheduling and circuit breaking of the Turnstile        *)
(* solver service: async_tasker.Tasker (the scheduler with its breaker,    *)
(* admission checks, per-task timeout supervisor and solve coroutine) and  *)
(* the recovery procedure of api_wrapper.DockerTurnstileAPI that replaces  *)
(* the scheduler; the task and result store the scheduler delivers to      *)
(* (app_tasker.Tasker behind api_wrapper, the maps of                      *)
(* api_server.TurnstileAPIWrapper behind api_server); and the health       *)
(* monitor of api_wrapper.                                                 *)
(*                                                                         *)
(* Time is a clock of seconds (time()).  The coroutines are cooperative:   *)
(* every action below is the code that runs between two awaits.            *)
(* Scheduler objects are numbered 0, 1, ... in order of construction;      *)
(* `cur` is the one the facade holds in self.async_tasker.  A task id      *)
(* belongs to the scheduler it was submitted to (inst[t]), so the dicts    *)
(* and sets of all scheduler objects are kept as one set of ids each.      *)
(* A task id is a uuid4, never used twice; the model names a task by the   *)
(* least id that no coroutine refers to, and keeps of a finished task only *)
(* the last call of callback_fn.                                           *)
(***************************************************************************)
EXTENDS Integers, Sequences, FiniteSets, TLC

\* ---------------------------------------------------------------- bounds
MaxTasks == 5          \* task ids of the model
MaxResets == 1         \* recoveries
RaceTasks == 2         \* Spec: task ids in use
RaceSubmits == 2       \* Spec: submissions
MaxTime == 120         \* Spec: last clock value
BreakerSubmits == 12   \* SpecBreaker: submissions
BreakerTime == 120     \* SpecBreaker: last clock value
LoadSubmits == 5       \* SpecLoad: submissions
GuardSubmits == 3      \* SpecGuard: submissions
GuardTime == 360       \* SpecGuard: last clock value
StoreTime == 330       \* SpecStore: last clock value
RecoverTime == 150     \* SpecStoreRecover: last clock value
ExpirySubmits == 1     \* SpecExpiry: submissions
ExpiryTime == 180      \* SpecExpiry: last clock value
HealthSubmits == 1     \* SpecHealth: submissions
HealthTime == 180      \* SpecHealth: last clock value
FacadeSubmits == 1     \* SpecFacade: submissions
FacadeTime == 150      \* SpecFacade: last clock value
ResetSubmits == 2      \* SpecReset: submissions
ResetTime == 150       \* SpecReset: last clock value
OpenNow == 60          \* SpecOpen: the time of the first state
OpenSubmits == 1       \* SpecOpen: submissions
OpenTime == 180        \* SpecOpen: last clock value
IdleSubmits == 1       \* SpecIdle: submissions
IdleTime == 750        \* SpecIdle: last clock value
FillTime == 120        \* SpecFill: last clock value
SnapNow == 630         \* SpecSnapshot: the time of the monitor round
SnapActive == 3        \* SpecSnapshot: most active tasks

\* ------------------------------------------------------------- constants
max_workers == 1
failure_threshold == 5
recovery_timeout == 60
task_timeout_seconds == 120
no_success_window == 300
min_rate_samples == 10
overload_factor == 3
task_timeout == 120            \* store: age after which a task is expired
result_timeout == 300          \* store: age after which a result is deleted
clear_interval == 30           \* store: least time between two sweeps
health_check_interval == 30
restart_threshold == 5
no_success_limit == 600
low_rate_samples == 10
low_rate_percent == 20
active_factor == 2

TickSteps == {60}

\* SpecBreaker: task ids in use, one per worker slot and one waiting
BreakerTasks == max_workers + 1

TaskIds == 1..MaxTasks
Instances == 0..MaxResets
Outcomes == {"token", "none", "raise"}

VARIABLES
    now,              \* time()
    cur,              \* index of the scheduler object in self.async_tasker
    recover_pc,       \* position of _auto_recover: "idle" or "cleanup"
    circuit_breaker,  \* per scheduler: CircuitBreakerState
    stats,            \* per scheduler: self.stats
    semaphore,        \* per scheduler: free slots of self.semaphore
    tasks,            \* ids in self.tasks of their scheduler
    active_tasks,     \* ids in self.active_tasks of their scheduler
    task_timeouts,    \* ids in self.task_timeouts of their scheduler
    inst,             \* scheduler a task id was submitted to
    pc,               \* solve coroutine of a task: "none" (not running),
                      \* "queued" (before the slot), "solving" (in the Solver)
    timer,            \* _timeout_task coroutine of a task: "armed" (asleep)
                      \* or "none" (not running)
    deadline,         \* time at which the sleep of _timeout_task ends
    delivered,        \* results handed to callback_fn for a task whose solve
                      \* coroutine has not ended, in order
    callback,         \* the last call of callback_fn: task id, result, and
                      \* how many calls that task id has had with it
    callback_fn,      \* the sink the scheduler was built with: "None" (the
                      \* scheduler alone, results are only recorded),
                      \* "add_result" (api_wrapper) or "_task_completed"
                      \* (api_server)
    store,            \* the store of the facade: tasks (id -> time of
                      \* creation), results (id -> time and result) and
                      \* last_clear, the time of the last sweep
    response,         \* what the last lookup returned
    consecutive_failures,  \* api_wrapper: flagged health ticks in a row
    health_wake       \* api_wrapper: end of the sleep of _health_monitor

vars == <<now, cur, recover_pc, circuit_breaker, stats, semaphore, tasks,
          active_tasks, task_timeouts, inst, pc, timer, deadline, delivered,
          callback, callback_fn, store, response, consecutive_failures,
          health_wake>>

\* what only the facades change
facade_vars == <<callback_fn, response, consecutive_failures, health_wake>>

Max(a, b) == IF a >= b THEN a ELSE b

\* dicts: d without the keys in S, and d with d[k] = v
Without(d, S) == [k \in DOMAIN d \ S |-> d[k]]
With(d, k, v) == [j \in DOMAIN d \cup {k} |-> IF j = k THEN v ELSE d[j]]
EmptyDict == [k \in {} |-> 0]

\* ---------------------------------------------------------- construction
CircuitBreakerState ==
    [failure_count |-> 0, last_failure_time |-> 0, state |-> "CLOSED"]

NewStats(t) ==
    [total_tasks |-> 0, successful_tasks |-> 0, failed_tasks |-> 0,
     timeout_tasks |-> 0, last_success |-> t]

NewStore == [tasks |-> EmptyDict, results |-> EmptyDict, last_clear |-> 0]

Init ==
    /\ now = 0
    /\ cur = 0
    /\ recover_pc = "idle"
    /\ circuit_breaker = [e \in Instances |-> CircuitBreakerState]
    /\ stats = [e \in Instances |-> NewStats(0)]
    /\ semaphore = [e \in Instances |-> max_workers]
    /\ tasks = {}
    /\ active_tasks = {}
    /\ task_timeouts = {}
    /\ inst = [t \in TaskIds |-> 0]
    /\ pc = [t \in TaskIds |-> "none"]
    /\ timer = [t \in TaskIds |-> "none"]
    /\ deadline = [t \in TaskIds |-> 0]
    /\ delivered = [t \in TaskIds |-> <<>>]
    /\ callback = [taskId |-> 0, result |-> "", nth |-> 0]
    /\ callback_fn = "None"
    /\ store = NewStore
    /\ response = ""
    /\ consecutive_failures = 0
    /\ health_wake = health_check_interval

\* ------------------------------------------------------- circuit breaker
\* variant: the recovery timeout counts as elapsed when it is reached
RecoveryElapsedInclusive(cb, current_time) ==
    current_time - cb.last_failure_time >= recovery_timeout

RecoveryElapsed(cb, current_time) ==
    current_time - cb.last_failure_time > recovery_timeout

\* variant: the threshold must be exceeded
ThresholdReachedStrict(cb) == cb.failure_count > failure_threshold

ThresholdReached(cb) == cb.failure_count >= failure_threshold

\* variant: a success in CLOSED clears the counter
OnSuccessClearingCount(cb) ==
    IF cb.state = "HALF_OPEN"
    THEN [cb EXCEPT !.state = "CLOSED", !.failure_count = 0]
    ELSE IF cb.state = "CLOSED"
         THEN [cb EXCEPT !.failure_count = 0]
         ELSE cb

\* variant: a success in CLOSED subtracts one without a floor
OnSuccessWithoutFloor(cb) ==
    IF cb.state = "HALF_OPEN"
    THEN [cb EXCEPT !.state = "CLOSED", !.failure_count = 0]
    ELSE IF cb.state = "CLOSED"
         THEN [cb EXCEPT !.failure_count = @ - 1]
         ELSE cb

OnSuccess(cb) ==
    IF cb.state = "HALF_OPEN"
    THEN [cb EXCEPT !.state = "CLOSED", !.failure_count = 0]
    ELSE IF cb.state = "CLOSED"
         THEN [cb EXCEPT !.failure_count = Max(0, @ - 1)]
         ELSE cb

\* variant: a failure in the trial period is counted like any other
OnFailureIgnoringTrial(cb, current_time) ==
    LET c == [cb EXCEPT !.failure_count = @ + 1,
                        !.last_failure_time = current_time]
    IN  IF c.state = "CLOSED" /\ ThresholdReached(c)
        THEN [c EXCEPT !.state = "OPEN"]
        ELSE c

\* variant: a failure in CLOSED never opens the breaker
OnFailureWithoutOpening(cb, current_time) ==
    LET c == [cb EXCEPT !.failure_count = @ + 1,
                        !.last_failure_time = current_time]
    IN  IF c.state = "HALF_OPEN"
        THEN [c EXCEPT !.state = "OPEN"]
        ELSE c

OnFailure(cb, current_time) ==
    LET c == [cb EXCEPT !.failure_count = @ + 1,
                        !.last_failure_time = current_time]
    IN  IF c.state = "CLOSED" /\ ThresholdReached(c)
        THEN [c EXCEPT !.state = "OPEN"]
        ELSE IF c.state = "HALF_OPEN"
             THEN [c EXCEPT !.state = "OPEN"]
             ELSE c

\* variant: the recovery keeps the failure counter
PassiveRecoveryKeepingCount(cb, current_time) ==
    IF cb.state = "OPEN" /\ RecoveryElapsed(cb, current_time)
    THEN [cb EXCEPT !.state = "HALF_OPEN"]
    ELSE cb

PassiveRecovery(cb, current_time) ==
    IF cb.state = "OPEN" /\ RecoveryElapsed(cb, current_time)
    THEN [cb EXCEPT !.state = "HALF_OPEN", !.failure_count = 0]
    ELSE cb

\* _update_circuit_breaker: the breaker after a report
update_circuit_breaker(cb, success, current_time) ==
    PassiveRecovery(IF success THEN OnSuccess(cb)
                               ELSE OnFailure(cb, current_time),
                    current_time)

\* _update_circuit_breaker: the statistics after a report
update_stats(st, success, current_time) ==
    IF success
    THEN [st EXCEPT !.successful_tasks = @ + 1,
                    !.last_success = current_time]
    ELSE [st EXCEPT !.failed_tasks = @ + 1]

\* ------------------------------------------- store of app_tasker.Tasker
\* A result is kept by its errorDescription, "ready" for status 'ready'.
\* clear_expired: tasks older than task_timeout become 'Task expired'
\* results, then results older than result_timeout are deleted
clear_expired(st, current_time) ==
    LET expired == {id \in DOMAIN st.tasks :
                       st.tasks[id] + task_timeout < current_time}
        results == [id \in DOMAIN st.results \cup expired |->
                       IF id \in expired
                       THEN [t |-> current_time, result |-> "Task expired"]
                       ELSE st.results[id]]
        old == {id \in DOMAIN results :
                   results[id].t + result_timeout < current_time}
    IN  [tasks |-> Without(st.tasks, expired),
         results |-> Without(results, old),
         last_clear |-> current_time]

\* variant: the gate opens at 30 seconds sharp
ClearIfDueInclusive(st, current_time) ==
    IF st.last_clear + clear_interval <= current_time
    THEN clear_expired(st, current_time)
    ELSE st

\* if cls._last_clear + 30 < time(): cls.clear_expired()
ClearIfDue(st, current_time) ==
    IF st.last_clear + clear_interval < current_time
    THEN clear_expired(st, current_time)
    ELSE st

\* app_tasker.Tasker.add_task for a payload that passes its validation
\* (a payload that fails it returns before anything is changed)
store_add_task(st, id, current_time) ==
    ClearIfDue([st EXCEPT !.tasks = With(@, id, current_time)], current_time)

\* add_result raises ValueError for an id that is not in tasks
add_result_raises(st, id) == id \notin DOMAIN st.tasks

\* variant: the result is written whether or not the task is known
add_result_overwriting(st, id, result, current_time) ==
    ClearIfDue([st EXCEPT !.tasks = Without(@, {id}),
                          !.results = With(@, id,
                              [t |-> current_time, result |-> result])],
               current_time)

add_result(st, id, result, current_time) ==
    ClearIfDue(IF id \in DOMAIN st.tasks
               THEN [st EXCEPT !.tasks = Without(@, {id}),
                               !.results = With(@, id,
                                   [t |-> current_time, result |-> result])]
               ELSE st,
               current_time)

Keys == {"valid", "invalid"}

\* variant: a task without a result is not looked for
get_result_response_without_tasks(st, id, key) ==
    IF key # "valid" THEN "Invalid API key"
    ELSE IF id \in DOMAIN st.results THEN st.results[id].result
    ELSE "Response expired or task not exists"

\* the response of get_result, before its finally clause
get_result_response(st, id, key) ==
    IF key # "valid" THEN "Invalid API key"
    ELSE IF id \in DOMAIN st.results THEN st.results[id].result
    ELSE IF id \in DOMAIN st.tasks THEN "processing"
    ELSE "Response expired or task not exists"

\* ------------------------------- store of api_server.TurnstileAPIWrapper
\* variant: the task stays in the map of active tasks
task_completed_keeping_task(st, id, result, current_time) ==
    [st EXCEPT !.results = With(@, id, [t |-> current_time, result |-> result])]

\* _task_completed: the result is written, whatever was there
task_completed(st, id, result, current_time) ==
    [st EXCEPT !.results = With(@, id, [t |-> current_time, result |-> result]),
               !.tasks = Without(@, {id})]

\* one round of _cleanup_loop; last_clear is the time of the round
cleanup_round(st, current_time) ==
    LET expired == {id \in DOMAIN st.tasks :
                       st.tasks[id] + task_timeout < current_time}
        results == [id \in DOMAIN st.results \cup expired |->
                       IF id \in DOMAIN st.results
                       THEN st.results[id]
                       ELSE [t |-> current_time, result |-> "Task expired"]]
        old == {id \in DOMAIN results :
                   results[id].t + result_timeout < current_time}
    IN  [tasks |-> Without(st.tasks, expired),
         results |-> Without(results, old),
         last_clear |-> current_time]

\* the response of get_task_result
get_task_result_response(st, id, key) ==
    IF key # "valid" THEN "Wrong clientKey"
    ELSE IF id \in DOMAIN st.results THEN st.results[id].result
    ELSE IF id \in DOMAIN st.tasks THEN "processing"
    ELSE "Task not found or expired"

\* ------------------------------------------------------ result delivery
\* the store after the facade recorded a new task, before the scheduler
\* is given it
StoreAfterPut(id) ==
    CASE callback_fn = "add_result" -> store_add_task(store, id, now)
      [] callback_fn = "_task_completed" ->
             [store EXCEPT !.tasks = With(@, id, now)]
      [] OTHER -> store

\* the store after callback_fn(result)
StoreAfterCallback(st, id, result) ==
    CASE callback_fn = "add_result" -> add_result(st, id, result, now)
      [] callback_fn = "_task_completed" -> task_completed(st, id, result, now)
      [] OTHER -> st

\* ------------------------------------------------------------- admission
\* variant: the window ends at 300 seconds sharp
NoRecentSuccessInclusive(st, current_time) ==
    current_time - st.last_success >= no_success_window

NoRecentSuccess(st, current_time) ==
    current_time - st.last_success > no_success_window

\* variant: the sample size is the counter of submissions
HighFailureRateOfSubmissions(st) ==
    LET total_recent == st.successful_tasks + st.failed_tasks
    IN  /\ st.total_tasks > min_rate_samples
        /\ total_recent > 0
        /\ 10 * st.failed_tasks > 8 * total_recent

HighFailureRate(st) ==
    LET total_recent == st.successful_tasks + st.failed_tasks
    IN  /\ total_recent > min_rate_samples
        \* failed_tasks / total_recent > 0.8
        /\ 10 * st.failed_tasks > 8 * total_recent

\* variant: only the state of the breaker rejects
should_reject_task_breaker_only(cb, st, current_time) ==
    cb.state = "OPEN"

should_reject_task(cb, st, current_time) ==
    \/ cb.state = "OPEN"
    \/ NoRecentSuccess(st, current_time)
    \/ HighFailureRate(st)

TasksOf(e) == {t \in tasks : inst[t] = e}
ActiveOf(e) == {t \in active_tasks : inst[t] = e}

\* variant: one more task is let in before the scheduler counts as full
OverloadedAboveOneMore(e) ==
    Cardinality(TasksOf(e)) > max_workers * overload_factor + 1

Overloaded(e) == Cardinality(TasksOf(e)) > max_workers * overload_factor

CircuitBreakerReason == "Service temporarily unavailable (circuit breaker)"
OverloadedReason == "The solver is overloaded"

\* The errorDescription of the response _add_task returns for a submission
\* to scheduler e whose statistics are st (total_tasks already counted);
\* "" stands for None (the task was accepted).
AdmissionResponse(e, st) ==
    IF should_reject_task(circuit_breaker[e], st, now)
    THEN CircuitBreakerReason
    ELSE IF Overloaded(e)
         THEN OverloadedReason
         ELSE ""

\* A task id is fresh (uuid4): the model takes the least id that no
\* coroutine refers to any more.
Free(t) ==
    /\ pc[t] = "none"
    /\ timer[t] = "none"
    /\ t \notin DOMAIN store.tasks
    /\ t \notin DOMAIN store.results

\* callback_fn(result) for task id t, the store being st before the call
DeliverFrom(st, t, result) ==
    /\ callback' = [taskId |-> t, result |-> result,
                    nth |-> Len(delivered[t]) + 1]
    /\ store' = StoreAfterCallback(st, t, result)

Deliver(t, result) == DeliverFrom(store, t, result)

\* variant: a rejection is reported to the breaker as a failure
add_task_reporting_rejection(t) ==
    /\ Free(t)
    /\ \A u \in TaskIds : u < t => ~Free(u)
    /\ LET e == cur
           st == [stats[e] EXCEPT !.total_tasks = @ + 1]
           r == AdmissionResponse(e, st)
       IN  IF r # ""
           THEN /\ stats' = [stats EXCEPT ![e] = update_stats(st, FALSE, now)]
                /\ circuit_breaker' = [circuit_breaker EXCEPT ![e] =
                       update_circuit_breaker(@, FALSE, now)]
                /\ DeliverFrom(StoreAfterPut(t), t, r)
                /\ UNCHANGED <<tasks, active_tasks, task_timeouts, inst, pc,
                               timer, deadline>>
           ELSE /\ stats' = [stats EXCEPT ![e] = st]
                /\ store' = StoreAfterPut(t)
                /\ tasks' = tasks \cup {t}
                /\ active_tasks' = active_tasks \cup {t}
                /\ task_timeouts' = task_timeouts \cup {t}
                /\ timer' = [timer EXCEPT ![t] = "armed"]
                /\ deadline' = [deadline EXCEPT ![t] =
                                    now + task_timeout_seconds]
                /\ inst' = [inst EXCEPT ![t] = e]
                /\ pc' = [pc EXCEPT ![t] = "queued"]
                /\ UNCHANGED <<circuit_breaker, callback>>
    /\ UNCHANGED <<now, cur, recover_pc, semaphore, delivered, facade_vars>>

\* variant: an accepted task is started without being recorded in tasks
add_task_without_recording(t) ==
    /\ Free(t)
    /\ \A u \in TaskIds : u < t => ~Free(u)
    /\ LET e == cur
           st == [stats[e] EXCEPT !.total_tasks = @ + 1]
           r == AdmissionResponse(e, st)
       IN  /\ stats' = [stats EXCEPT ![e] = st]
           /\ IF r # ""
              THEN /\ DeliverFrom(StoreAfterPut(t), t, r)
                   /\ UNCHANGED <<tasks, active_tasks, task_timeouts, inst,
                                  pc, timer, deadline>>
              ELSE /\ store' = StoreAfterPut(t)
                   /\ active_tasks' = active_tasks \cup {t}
                   /\ task_timeouts' = task_timeouts \cup {t}
                   /\ timer' = [timer EXCEPT ![t] = "armed"]
                   /\ deadline' = [deadline EXCEPT ![t] =
                                       now + task_timeout_seconds]
                   /\ inst' = [inst EXCEPT ![t] = e]
                   /\ pc' = [pc EXCEPT ![t] = "queued"]
                   /\ UNCHANGED <<tasks, callback>>
    /\ UNCHANGED <<now, cur, recover_pc, circuit_breaker, semaphore,
                   delivered, facade_vars>>

\* variant: a rejection is delivered for a task the store was not given
add_task_rejecting_unrecorded(t) ==
    /\ Free(t)
    /\ \A u \in TaskIds : u < t => ~Free(u)
    /\ LET e == cur
           st == [stats[e] EXCEPT !.total_tasks = @ + 1]
           r == AdmissionResponse(e, st)
       IN  /\ stats' = [stats EXCEPT ![e] = st]
           /\ IF r # ""
              THEN /\ DeliverFrom(store, t, r)
                   /\ UNCHANGED <<tasks, active_tasks, task_timeouts, inst,
                                  pc, timer, deadline>>
              ELSE /\ store' = StoreAfterPut(t)
                   /\ tasks' = tasks \cup {t}
                   /\ active_tasks' = active_tasks \cup {t}
                   /\ task_timeouts' = task_timeouts \cup {t}
                   /\ timer' = [timer EXCEPT ![t] = "armed"]
                   /\ deadline' = [deadline EXCEPT ![t] =
                                       now + task_timeout_seconds]
                   /\ inst' = [inst EXCEPT ![t] = e]
                   /\ pc' = [pc EXCEPT ![t] = "queued"]
                   /\ UNCHANGED callback
    /\ UNCHANGED <<now, cur, recover_pc, circuit_breaker, semaphore,
                   delivered, facade_vars>>

\* add_task / _add_task on the scheduler the facade holds; behind a facade
\* it is reached from create_task, which records the task in the store first
\* and does not suspend in between
add_task(t) ==
    /\ Free(t)
    /\ \A u \in TaskIds : u < t => ~Free(u)
    /\ LET e == cur
           st == [stats[e] EXCEPT !.total_tasks = @ + 1]
           r == AdmissionResponse(e, st)
       IN  /\ stats' = [stats EXCEPT ![e] = st]
           /\ IF r # ""
              THEN /\ DeliverFrom(StoreAfterPut(t), t, r)
                   /\ UNCHANGED <<tasks, active_tasks, task_timeouts, inst,
                                  pc, timer, deadline>>
              ELSE /\ store' = StoreAfterPut(t)
                   /\ tasks' = tasks \cup {t}
                   /\ active_tasks' = active_tasks \cup {t}
                   /\ task_timeouts' = task_timeouts \cup {t}
                   /\ timer' = [timer EXCEPT ![t] = "armed"]
                   /\ deadline' = [deadline EXCEPT ![t] =
                                       now + task_timeout_seconds]
                   /\ inst' = [inst EXCEPT ![t] = e]
                   /\ pc' = [pc EXCEPT ![t] = "queued"]
                   /\ UNCHANGED callback
    /\ UNCHANGED <<now, cur, recover_pc, circuit_breaker, semaphore,
                   delivered, facade_vars>>

\* ------------------------------------------------------------ _cleanup_task
\* task.cancel() on the supervisors of the ids in S that are still in
\* task_timeouts: the sleep is abandoned
TimerAfterCancel(S) ==
    [t \in TaskIds |->
        IF t \in S /\ t \in task_timeouts THEN "none" ELSE timer[t]]

DeadlineAfterCancel(S) ==
    [t \in TaskIds |->
        IF t \in S /\ t \in task_timeouts THEN 0 ELSE deadline[t]]

\* variant: the supervisor of the task is left alone
cleanup_task_keeping_supervisor(t) ==
    /\ tasks' = tasks \ {t}
    /\ active_tasks' = active_tasks \ {t}
    /\ UNCHANGED <<task_timeouts, timer, deadline>>

cleanup_task(t) ==
    /\ tasks' = tasks \ {t}
    /\ active_tasks' = active_tasks \ {t}
    /\ task_timeouts' = task_timeouts \ {t}
    /\ timer' = TimerAfterCancel({t})
    /\ deadline' = DeadlineAfterCancel({t})

\* --------------------------------------------------- timeout supervisor
\* variant: the supervisor reports the timeout as a failure of the solve
timeout_task_reporting_failure(t) ==
    /\ timer[t] = "armed"
    /\ now >= deadline[t]
    /\ IF t \in active_tasks
       THEN /\ stats' = [stats EXCEPT ![inst[t]] =
                            update_stats([@ EXCEPT !.timeout_tasks = @ + 1],
                                         FALSE, now)]
            /\ cleanup_task(t)
            /\ Deliver(t, "Task timeout")
            /\ delivered' = [delivered EXCEPT ![t] =
                                 Append(@, "Task timeout")]
       ELSE /\ timer' = [timer EXCEPT ![t] = "none"]
            /\ deadline' = [deadline EXCEPT ![t] = 0]
            /\ UNCHANGED <<stats, tasks, active_tasks, task_timeouts,
                           delivered, callback, store>>
    /\ UNCHANGED <<now, cur, recover_pc, circuit_breaker, semaphore, inst, pc,
                   facade_vars>>

\* variant: the supervisor reports the timeout and leaves the task in place
timeout_task_keeping_task(t) ==
    /\ timer[t] = "armed"
    /\ now >= deadline[t]
    /\ timer' = [timer EXCEPT ![t] = "none"]
    /\ deadline' = [deadline EXCEPT ![t] = 0]
    /\ IF t \in active_tasks
       THEN /\ stats' = [stats EXCEPT ![inst[t]].timeout_tasks = @ + 1]
            /\ Deliver(t, "Task timeout")
            /\ delivered' = [delivered EXCEPT ![t] =
                                 Append(@, "Task timeout")]
       ELSE UNCHANGED <<stats, delivered, callback, store>>
    /\ UNCHANGED <<now, cur, recover_pc, circuit_breaker, semaphore, inst, pc,
                   tasks, active_tasks, task_timeouts, facade_vars>>

\* _timeout_task after its sleep.  The supervisor is the running coroutine,
\* so the cancel() that _cleanup_task sends to it only ends it.
timeout_task(t) ==
    /\ timer[t] = "armed"
    /\ now >= deadline[t]
    /\ IF t \in active_tasks
       THEN /\ stats' = [stats EXCEPT ![inst[t]].timeout_tasks = @ + 1]
            /\ cleanup_task(t)
            /\ Deliver(t, "Task timeout")
            /\ delivered' = [delivered EXCEPT ![t] =
                                 Append(@, "Task timeout")]
       ELSE /\ timer' = [timer EXCEPT ![t] = "none"]
            /\ deadline' = [deadline EXCEPT ![t] = 0]
            /\ UNCHANGED <<stats, tasks, active_tasks, task_timeouts,
                           delivered, callback, store>>
    /\ UNCHANGED <<now, cur, recover_pc, circuit_breaker, semaphore, inst, pc,
                   facade_vars>>

\* ------------------------------------------------------- solve coroutine
\* the solve coroutine of t ends: nothing refers to the task any more
SolveEnds(t) ==
    /\ pc' = [pc EXCEPT ![t] = "none"]
    /\ inst' = [inst EXCEPT ![t] = 0]
    /\ delivered' = [delivered EXCEPT ![t] = <<>>]

\* variant: the solve does not look at the active set
solve_start_unchecked(t) ==
    /\ pc[t] = "queued"
    /\ semaphore[inst[t]] > 0
    /\ pc' = [pc EXCEPT ![t] = "solving"]
    /\ semaphore' = [semaphore EXCEPT ![inst[t]] = @ - 1]
    /\ UNCHANGED <<tasks, active_tasks, task_timeouts, timer, deadline, inst,
                   delivered>>
    /\ UNCHANGED <<now, cur, recover_pc, circuit_breaker, stats, callback,
                   store, facade_vars>>

\* solve up to the await of the Solver: the slot is acquired, and a task
\* that is no longer active returns at once (cleanup, slot released).
solve_start(t) ==
    /\ pc[t] = "queued"
    /\ semaphore[inst[t]] > 0
    /\ IF t \notin active_tasks
       THEN /\ cleanup_task(t)
            /\ SolveEnds(t)
            /\ UNCHANGED semaphore
       ELSE /\ pc' = [pc EXCEPT ![t] = "solving"]
            /\ semaphore' = [semaphore EXCEPT ![inst[t]] = @ - 1]
            /\ UNCHANGED <<tasks, active_tasks, task_timeouts, timer,
                           deadline, inst, delivered>>
    /\ UNCHANGED <<now, cur, recover_pc, circuit_breaker, stats, callback,
                   store, facade_vars>>

\* variant: whatever the Solver returns is taken for a token
ResultOfAnyReturn(outcome) ==
    CASE outcome = "raise" -> "exception"
      [] OTHER             -> "ready"

\* errorDescription (or status 'ready') of the result solve builds; the
\* outcome "none" is a return value that is not true (None or '')
ResultOf(outcome) ==
    CASE outcome = "token" -> "ready"
      [] outcome = "none"  -> "Token not found"
      [] OTHER             -> "exception"

\* solve from the return of the Solver to its end: the outcome is reported,
\* the slot released, the task cleaned up and the result delivered
solve_return(t, outcome) ==
    /\ pc[t] = "solving"
    /\ LET e == inst[t] IN
       /\ circuit_breaker' = [circuit_breaker EXCEPT ![e] =
              update_circuit_breaker(@, outcome = "token", now)]
       /\ stats' = [stats EXCEPT ![e] =
              update_stats(@, outcome = "token", now)]
       /\ semaphore' = [semaphore EXCEPT ![e] = @ + 1]
    /\ cleanup_task(t)
    /\ Deliver(t, ResultOf(outcome))
    /\ SolveEnds(t)
    /\ UNCHANGED <<now, cur, recover_pc, facade_vars>>

\* ---------------------------------------------------------------- lookup
\* POST /getTaskResult: get_result of app_tasker with the sweep of its
\* finally clause (api_wrapper), or get_task_result (api_server)
get_result(t, key) ==
    /\ callback_fn # "None"
    /\ response' = IF callback_fn = "add_result"
                   THEN get_result_response(store, t, key)
                   ELSE get_task_result_response(store, t, key)
    /\ store' = IF callback_fn = "add_result"
                THEN ClearIfDue(store, now)
                ELSE store
    /\ UNCHANGED <<now, cur, recover_pc, circuit_breaker, stats, semaphore,
                   tasks, active_tasks, task_timeouts, inst, pc, timer,
                   deadline, delivered, callback, callback_fn,
                   consecutive_failures, health_wake>>

\* _cleanup_loop of api_server after its sleep: one round
cleanup_loop ==
    /\ callback_fn = "_task_completed"
    /\ now >= store.last_clear + clear_interval
    /\ store' = cleanup_round(store, now)
    /\ UNCHANGED <<now, cur, recover_pc, circuit_breaker, stats, semaphore,
                   tasks, active_tasks, task_timeouts, inst, pc, timer,
                   deadline, delivered, callback, facade_vars>>

\* -------------------------------------------------------------- recovery
\* Tasker.force_reset of the scheduler in use, up to its await (the cleanup
\* of the browsers)
tasker_force_reset ==
    /\ timer' = TimerAfterCancel({t \in TaskIds : inst[t] = cur})
    /\ deadline' = DeadlineAfterCancel({t \in TaskIds : inst[t] = cur})
    /\ tasks' = tasks \ TasksOf(cur)
    /\ active_tasks' = active_tasks \ ActiveOf(cur)
    /\ task_timeouts' = {t \in task_timeouts : inst[t] # cur}
    /\ circuit_breaker' = [circuit_breaker EXCEPT ![cur] = CircuitBreakerState]

\* POST /reset: _auto_recover up to the await inside Tasker.force_reset.
\* One recovery runs at a time.
force_reset ==
    /\ recover_pc = "idle"
    /\ cur < MaxResets
    /\ tasker_force_reset
    /\ recover_pc' = "cleanup"
    /\ UNCHANGED <<now, cur, stats, semaphore, inst, pc, delivered, callback,
                   store, facade_vars>>

\* variant: the maps of app_tasker are left as they are
auto_recover_keeping_store ==
    /\ recover_pc \in {"cleanup", "monitor"}
    /\ cur' = cur + 1
    /\ circuit_breaker' =
           [circuit_breaker EXCEPT ![cur + 1] = CircuitBreakerState]
    /\ stats' = [stats EXCEPT ![cur + 1] = NewStats(now)]
    /\ semaphore' = [semaphore EXCEPT ![cur + 1] = max_workers]
    /\ store' = store
    /\ recover_pc' = "idle"
    /\ IF recover_pc = "monitor"
       THEN /\ consecutive_failures' = 0
            /\ health_wake' = now + health_check_interval
       ELSE UNCHANGED <<consecutive_failures, health_wake>>
    /\ UNCHANGED <<now, tasks, active_tasks, task_timeouts, inst, pc, timer,
                   deadline, delivered, callback, callback_fn, response>>

\* _auto_recover after force_reset returned: the maps of app_tasker are
\* cleared and a new scheduler is installed; the monitor, when it was the
\* caller, sets its counter to 0 and sleeps
auto_recover ==
    /\ recover_pc \in {"cleanup", "monitor"}
    /\ cur' = cur + 1
    /\ circuit_breaker' =
           [circuit_breaker EXCEPT ![cur + 1] = CircuitBreakerState]
    /\ stats' = [stats EXCEPT ![cur + 1] = NewStats(now)]
    /\ semaphore' = [semaphore EXCEPT ![cur + 1] = max_workers]
    /\ store' = IF callback_fn = "add_result"
                THEN [store EXCEPT !.tasks = EmptyDict, !.results = EmptyDict]
                ELSE store
    /\ recover_pc' = "idle"
    /\ IF recover_pc = "monitor"
       THEN /\ consecutive_failures' = 0
            /\ health_wake' = now + health_check_interval
       ELSE UNCHANGED <<consecutive_failures, health_wake>>
    /\ UNCHANGED <<now, tasks, active_tasks, task_timeouts, inst, pc, timer,
                   deadline, delivered, callback, callback_fn, response>>

\* -------------------------------------------------------- health monitor
\* Tasker.health_check of scheduler e: the fields _health_monitor reads
health_check(e) ==
    [circuit_breaker_state |-> circuit_breaker[e].state,
     active_tasks |-> Cardinality(ActiveOf(e)),
     total_tasks |-> stats[e].total_tasks,
     successful_tasks |-> stats[e].successful_tasks,
     time_since_last_success |-> now - stats[e].last_success,
     available_workers |-> semaphore[e]]

\* success_rate < percent, success_rate being
\* successful_tasks / max(1, total_tasks) * 100
SuccessRateBelow(health_status, percent) ==
    100 * health_status.successful_tasks
        < percent * Max(1, health_status.total_tasks)

\* variant: a scheduler without a free slot is no issue
issues_without_workers(health_status) ==
    (IF health_status.circuit_breaker_state = "OPEN"
     THEN {"Circuit breaker is OPEN"} ELSE {})
    \cup (IF health_status.time_since_last_success > no_success_limit
          THEN {"No successful tasks in 10+ minutes"} ELSE {})
    \cup (IF /\ health_status.total_tasks > low_rate_samples
             /\ SuccessRateBelow(health_status, low_rate_percent)
          THEN {"Low success rate"} ELSE {})
    \cup (IF health_status.active_tasks > max_workers * active_factor
          THEN {"Too many active tasks"} ELSE {})

\* the list `issues` of _health_monitor
issues(health_status) ==
    (IF health_status.circuit_breaker_state = "OPEN"
     THEN {"Circuit breaker is OPEN"} ELSE {})
    \cup (IF health_status.time_since_last_success > no_success_limit
          THEN {"No successful tasks in 10+ minutes"} ELSE {})
    \cup (IF /\ health_status.total_tasks > low_rate_samples
             /\ SuccessRateBelow(health_status, low_rate_percent)
          THEN {"Low success rate"} ELSE {})
    \cup (IF health_status.active_tasks > max_workers * active_factor
          THEN {"Too many active tasks"} ELSE {})
    \cup (IF health_status.available_workers = 0
          THEN {"No available workers"} ELSE {})

\* variant: a round without issues leaves the counter as it is
health_monitor_keeping_count ==
    /\ callback_fn = "add_result"
    /\ recover_pc # "monitor"
    /\ now >= health_wake
    /\ IF issues(health_check(cur)) # {}
       THEN /\ consecutive_failures' = consecutive_failures + 1
            /\ IF consecutive_failures + 1 >= restart_threshold
               THEN /\ recover_pc = "idle"
                    /\ cur < MaxResets
                    /\ tasker_force_reset
                    /\ recover_pc' = "monitor"
                    /\ UNCHANGED health_wake
               ELSE /\ health_wake' = now + health_check_interval
                    /\ UNCHANGED <<timer, deadline, tasks, active_tasks,
                                   task_timeouts, circuit_breaker, recover_pc>>
       ELSE /\ consecutive_failures' = consecutive_failures
            /\ health_wake' = now + health_check_interval
            /\ UNCHANGED <<timer, deadline, tasks, active_tasks,
                           task_timeouts, circuit_breaker, recover_pc>>
    /\ UNCHANGED <<now, cur, stats, semaphore, inst, pc, delivered, callback,
                   callback_fn, store, response>>

\* one round of _health_monitor after its sleep, up to the next await: the
\* next sleep, or the await inside Tasker.force_reset when the recovery
\* is started
health_monitor ==
    /\ callback_fn = "add_result"
    /\ recover_pc # "monitor"
    /\ now >= health_wake
    /\ IF issues(health_check(cur)) # {}
       THEN /\ consecutive_failures' = consecutive_failures + 1
            /\ IF consecutive_failures + 1 >= restart_threshold
               THEN /\ recover_pc = "idle"
                    /\ cur < MaxResets
                    /\ tasker_force_reset
                    /\ recover_pc' = "monitor"
                    /\ UNCHANGED health_wake
               ELSE /\ health_wake' = now + health_check_interval
                    /\ UNCHANGED <<timer, deadline, tasks, active_tasks,
                                   task_timeouts, circuit_breaker, recover_pc>>
       ELSE /\ consecutive_failures' = 0
            /\ health_wake' = now + health_check_interval
            /\ UNCHANGED <<timer, deadline, tasks, active_tasks,
                           task_timeouts, circuit_breaker, recover_pc>>
    /\ UNCHANGED <<now, cur, stats, semaphore, inst, pc, delivered, callback,
                   callback_fn, store, response>>

\* ------------------------------------------------------------------ time
\* The clock advances; a sleeping supervisor wakes at its deadline.
Tick(d) ==
    /\ \A t \in TaskIds : timer[t] = "armed" => deadline[t] >= now + d
    /\ now' = now + d
    /\ UNCHANGED <<cur, recover_pc, circuit_breaker, stats, semaphore, tasks,
                   active_tasks, task_timeouts, inst, pc, timer, deadline,
                   delivered, callback, store, facade_vars>>

\* -------------------------------------------------------- specifications
\* Spec: submissions, solves, supervisors, recovery and the clock
RECURSIVE SubmittedUpTo(_)
SubmittedUpTo(e) ==
    IF e < 0 THEN 0 ELSE stats[e].total_tasks + SubmittedUpTo(e - 1)

Submit(t) == SubmittedUpTo(MaxResets) < RaceSubmits /\ add_task(t)
Advance(d) == now + d <= MaxTime /\ Tick(d)

Next ==
    \/ \E t \in 1..RaceTasks : Submit(t)
    \/ \E t \in TaskIds : timeout_task(t)
    \/ \E t \in TaskIds : solve_start(t)
    \/ \E t \in TaskIds, o \in Outcomes : solve_return(t, o)
    \/ force_reset
    \/ auto_recover
    \/ \E d \in TickSteps : Advance(d)

Spec == Init /\ [][Next]_vars

\* SpecBreaker: one scheduler over a long run of reports; the Solver
\* returns a token or none
SubmitB(t) == stats[cur].total_tasks < BreakerSubmits /\ add_task(t)
AdvanceB(d) == now + d <= BreakerTime /\ Tick(d)

NextBreaker ==
    \/ \E t \in 1..BreakerTasks : SubmitB(t)
    \/ \E t \in TaskIds : timeout_task(t)
    \/ \E t \in TaskIds : solve_start(t)
    \/ \E t \in TaskIds, o \in {"token", "none"} : solve_return(t, o)
    \/ \E d \in TickSteps : AdvanceB(d)

SpecBreaker == Init /\ [][NextBreaker]_vars

\* SpecLoad: one scheduler filled with submissions at one instant
SubmitL(t) == stats[cur].total_tasks < LoadSubmits /\ add_task(t)

NextLoad ==
    \/ \E t \in TaskIds : SubmitL(t)
    \/ \E t \in TaskIds : solve_start(t)
    \/ \E t \in TaskIds, o \in Outcomes : solve_return(t, o)

SpecLoad == Init /\ [][NextLoad]_vars

\* SpecGuard: one scheduler, one task at a time, over a long stretch of time
SubmitG(t) == stats[cur].total_tasks < GuardSubmits /\ add_task(t)
AdvanceG(d) == now + d <= GuardTime /\ Tick(d)

NextGuard ==
    \/ SubmitG(1)
    \/ timeout_task(1)
    \/ solve_start(1)
    \/ \E o \in Outcomes : solve_return(1, o)
    \/ \E d \in TickSteps : AdvanceG(d)

SpecGuard == Init /\ [][NextGuard]_vars

\* SpecStore: the store of either facade under calls in any order.  The
\* scheduler is left out: a task is recorded (the part of create_task that
\* reaches the store), and a result is delivered for any id at any time.
StoreIds == {1, 2}
StoreResults == {"ready", "Token not found"}

InitStore ==
    /\ now = 0
    /\ cur = 0
    /\ recover_pc = "idle"
    /\ circuit_breaker = [e \in Instances |-> CircuitBreakerState]
    /\ stats = [e \in Instances |-> NewStats(0)]
    /\ semaphore = [e \in Instances |-> max_workers]
    /\ tasks = {}
    /\ active_tasks = {}
    /\ task_timeouts = {}
    /\ inst = [t \in TaskIds |-> 0]
    /\ pc = [t \in TaskIds |-> "none"]
    /\ timer = [t \in TaskIds |-> "none"]
    /\ deadline = [t \in TaskIds |-> 0]
    /\ delivered = [t \in TaskIds |-> <<>>]
    /\ callback = [taskId |-> 0, result |-> "", nth |-> 0]
    /\ callback_fn \in {"add_result", "_task_completed"}
    /\ store = NewStore
    /\ response = ""
    /\ consecutive_failures = 0
    /\ health_wake = health_check_interval

PutS(t) ==
    /\ Free(t)
    /\ \A u \in TaskIds : u < t => ~Free(u)
    /\ store' = StoreAfterPut(t)
    /\ UNCHANGED <<now, cur, recover_pc, circuit_breaker, stats, semaphore,
                   tasks, active_tasks, task_timeouts, inst, pc, timer,
                   deadline, delivered, callback, facade_vars>>

DeliverS(t, result) ==
    /\ store' = StoreAfterCallback(store, t, result)
    /\ UNCHANGED <<now, cur, recover_pc, circuit_breaker, stats, semaphore,
                   tasks, active_tasks, task_timeouts, inst, pc, timer,
                   deadline, delivered, callback, facade_vars>>

AdvanceS(d) ==
    /\ now + d <= StoreTime
    /\ callback_fn = "_task_completed" =>
           now < store.last_clear + clear_interval
    /\ Tick(d)

NextStore ==
    \/ \E t \in StoreIds : PutS(t)
    \/ \E t \in StoreIds, r \in StoreResults : DeliverS(t, r)
    \/ \E t \in StoreIds, k \in Keys : get_result(t, k)
    \/ cleanup_loop
    \/ AdvanceS(clear_interval)

SpecStore == InitStore /\ [][NextStore]_vars

(* SpecExpiry: a facade, its scheduler and its store, with a client that
   polls the result of the first task.  Timers fire when their sleep is
   over, the cleanup loop of api_server runs, the client keeps asking and
   the clock runs to ExpiryTime. *)
PolledTask == 1

SubmitE(t) ==
    /\ stats[cur].total_tasks < ExpirySubmits
    /\ \A u \in TaskIds : u < t => ~Free(u)
    /\ add_task(t)

AdvanceE(d) ==
    /\ now + d <= ExpiryTime
    /\ callback_fn = "_task_completed" =>
           now < store.last_clear + clear_interval
    /\ Tick(d)

NextExpiry ==
    \/ \E t \in TaskIds : SubmitE(t)
    \/ \E t \in TaskIds : timeout_task(t)
    \/ \E t \in TaskIds : solve_start(t)
    \/ \E t \in TaskIds, o \in Outcomes : solve_return(t, o)
    \/ get_result(PolledTask, "valid")
    \/ cleanup_loop
    \/ AdvanceE(clear_interval)

FairExpiry ==
    /\ \A t \in TaskIds : WF_vars(timeout_task(t))
    /\ WF_vars(get_result(PolledTask, "valid"))
    /\ WF_vars(cleanup_loop)
    /\ WF_vars(AdvanceE(clear_interval))

SpecExpiry == InitStore /\ [][NextExpiry]_vars /\ FairExpiry

(* SpecHealth: the REST facade of api_wrapper with its health monitor: the
   scheduler behind the store of app_tasker, a monitor round every
   health_check_interval seconds and the recovery the monitor starts. *)
InitHealth ==
    /\ now = 0
    /\ cur = 0
    /\ recover_pc = "idle"
    /\ circuit_breaker = [e \in Instances |-> CircuitBreakerState]
    /\ stats = [e \in Instances |-> NewStats(0)]
    /\ semaphore = [e \in Instances |-> max_workers]
    /\ tasks = {}
    /\ active_tasks = {}
    /\ task_timeouts = {}
    /\ inst = [t \in TaskIds |-> 0]
    /\ pc = [t \in TaskIds |-> "none"]
    /\ timer = [t \in TaskIds |-> "none"]
    /\ deadline = [t \in TaskIds |-> 0]
    /\ delivered = [t \in TaskIds |-> <<>>]
    /\ callback = [taskId |-> 0, result |-> "", nth |-> 0]
    /\ callback_fn = "add_result"
    /\ store = NewStore
    /\ response = ""
    /\ consecutive_failures = 0
    /\ health_wake = health_check_interval

SubmitH(t) ==
    /\ SubmittedUpTo(MaxResets) < HealthSubmits
    /\ \A u \in TaskIds : u < t => ~Free(u)
    /\ add_task(t)

\* the monitor wakes when its sleep is over; the clock is free while the
\* monitor waits for the recovery it started
AdvanceH(d) ==
    /\ now + d <= HealthTime
    /\ recover_pc = "monitor" \/ now + d <= health_wake
    /\ Tick(d)

NextHealth ==
    \/ \E t \in TaskIds : SubmitH(t)
    \/ \E t \in TaskIds : timeout_task(t)
    \/ \E t \in TaskIds : solve_start(t)
    \/ \E t \in TaskIds, o \in Outcomes : solve_return(t, o)
    \/ health_monitor
    \/ auto_recover
    \/ AdvanceH(health_check_interval)

SpecHealth == InitHealth /\ [][NextHealth]_vars

(* SpecFacade: the REST facade of api_wrapper as a whole: submissions,
   solves and supervisors of its schedulers, the health monitor, POST /reset
   and the recovery either of them starts, over the store of app_tasker. *)
SubmitF(t) ==
    /\ SubmittedUpTo(MaxResets) < FacadeSubmits
    /\ \A u \in TaskIds : u < t => ~Free(u)
    /\ add_task(t)

AdvanceF(d) ==
    /\ now + d <= FacadeTime
    /\ recover_pc = "monitor" \/ now + d <= health_wake
    /\ Tick(d)

NextFacade ==
    \/ \E t \in TaskIds : SubmitF(t)
    \/ \E t \in TaskIds : timeout_task(t)
    \/ \E t \in TaskIds : solve_start(t)
    \/ \E t \in TaskIds, o \in Outcomes : solve_return(t, o)
    \/ health_monitor
    \/ force_reset
    \/ auto_recover
    \/ AdvanceF(health_check_interval)

SpecFacade == InitHealth /\ [][NextFacade]_vars

(* SpecReset: POST /reset on a facade whose Solver has a browser. The
   recovery awaits BrowserHandler().cleanup_all(), which suspends when the
   handler holds a proxy task, a browser or a playwright driver; the handler
   gets them in launch(), on the first get_page of a solve, and keeps them
   until cleanup_all. BrowserLaunched says a solve has entered the Solver
   under the scheduler in use; a reset is taken here only then, so that every
   step between force_reset and auto_recover is one the await lets in. *)
BrowserLaunched ==
    \/ \E t \in TaskIds : pc[t] = "solving"
    \/ stats[cur].successful_tasks + stats[cur].failed_tasks > 0

SubmitQ(t) ==
    /\ SubmittedUpTo(MaxResets) < ResetSubmits
    /\ \A u \in TaskIds : u < t => ~Free(u)
    /\ add_task(t)

ResetQ ==
    /\ BrowserLaunched
    /\ force_reset

AdvanceQ(d) ==
    /\ now + d <= ResetTime
    /\ Tick(d)

NextReset ==
    \/ \E t \in TaskIds : SubmitQ(t)
    \/ \E t \in TaskIds : timeout_task(t)
    \/ \E t \in TaskIds : solve_start(t)
    \/ \E t \in TaskIds, o \in Outcomes : solve_return(t, o)
    \/ ResetQ
    \/ auto_recover
    \/ AdvanceQ(health_check_interval)

SpecReset == InitHealth /\ [][NextReset]_vars

(* SpecOpen: the facade from the moment its breaker is OPEN. The scheduler
   was built at time 0, failure_threshold tasks have failed, the last of
   them at time 0 or at OpenNow, and k tasks accepted at time 0, before that
   failure, wait for the slot it held. From there, for as long as this
   scheduler is the one in use: submissions, solves, supervisors, the clock,
   and POST /reset with the recovery it starts. *)
InitOpen ==
    \E k \in 0..max_workers, last \in {0, OpenNow} :
        /\ now = OpenNow
        /\ cur = 0
        /\ recover_pc = "idle"
        /\ circuit_breaker =
               [e \in Instances |->
                   IF e = 0
                   THEN [failure_count |-> failure_threshold,
                         last_failure_time |-> last,
                         state |-> "OPEN"]
                   ELSE CircuitBreakerState]
        /\ stats =
               [e \in Instances |->
                   IF e = 0
                   THEN [total_tasks |-> failure_threshold + k,
                         successful_tasks |-> 0,
                         failed_tasks |-> failure_threshold,
                         timeout_tasks |-> 0,
                         last_success |-> 0]
                   ELSE NewStats(0)]
        /\ semaphore = [e \in Instances |-> max_workers]
        /\ tasks = 1..k
        /\ active_tasks = 1..k
        /\ task_timeouts = 1..k
        /\ inst = [t \in TaskIds |-> 0]
        /\ pc = [t \in TaskIds |-> IF t > k THEN "none" ELSE "queued"]
        /\ timer = [t \in TaskIds |-> IF t > k THEN "none" ELSE "armed"]
        /\ deadline = [t \in TaskIds |->
                          IF t > k THEN 0 ELSE task_timeout_seconds]
        /\ delivered = [t \in TaskIds |-> <<>>]
        /\ callback = [taskId |-> 0, result |-> "", nth |-> 0]
        /\ callback_fn = "add_result"
        /\ store = [tasks |-> [t \in 1..k |-> 0],
                    results |-> EmptyDict,
                    last_clear |-> 0]
        /\ response = ""
        /\ consecutive_failures = 0
        /\ health_wake = OpenNow + health_check_interval

SubmitO(t) ==
    /\ cur = 0
    /\ stats[0].total_tasks < failure_threshold + max_workers + OpenSubmits
    /\ add_task(t)

ResetO ==
    /\ cur = 0
    /\ force_reset

AdvanceO(d) ==
    /\ now + d <= OpenTime
    /\ Tick(d)

NextOpen ==
    \/ \E t \in TaskIds : SubmitO(t)
    \/ \E t \in TaskIds : timeout_task(t)
    \/ \E t \in TaskIds : solve_start(t)
    \/ \E t \in TaskIds, o \in Outcomes : solve_return(t, o)
    \/ ResetO
    \/ auto_recover
    \/ \E d \in TickSteps : AdvanceO(d)

SpecOpen == InitOpen /\ [][NextOpen]_vars

(* SpecAbsorb: SpecGuard with POST /reset and its recovery: one task at a
   time over a long stretch of time, the first scheduler replaced at any
   moment. *)
SubmitA(t) ==
    /\ SubmittedUpTo(MaxResets) < GuardSubmits
    /\ add_task(t)

NextAbsorb ==
    \/ SubmitA(1)
    \/ timeout_task(1)
    \/ solve_start(1)
    \/ \E o \in Outcomes : solve_return(1, o)
    \/ ResetO
    \/ auto_recover
    \/ \E d \in TickSteps : AdvanceG(d)

SpecAbsorb == Init /\ [][NextAbsorb]_vars

(* SpecIdle: SpecHealth over the first quarter of an hour of a facade that
   is given little or nothing to do. *)
SubmitI(t) ==
    /\ SubmittedUpTo(MaxResets) < IdleSubmits
    /\ \A u \in TaskIds : u < t => ~Free(u)
    /\ add_task(t)

AdvanceI(d) ==
    /\ now + d <= IdleTime
    /\ recover_pc = "monitor" \/ now + d <= health_wake
    /\ Tick(d)

NextIdle ==
    \/ \E t \in TaskIds : SubmitI(t)
    \/ \E t \in TaskIds : timeout_task(t)
    \/ \E t \in TaskIds : solve_start(t)
    \/ \E t \in TaskIds, o \in Outcomes : solve_return(t, o)
    \/ health_monitor
    \/ auto_recover
    \/ AdvanceI(health_check_interval)

SpecIdle == InitHealth /\ [][NextIdle]_vars

(* SpecFill: SpecLoad with the clock and the supervisors: one scheduler
   filled with submissions while tasks complete and time out. *)
AdvanceL(d) ==
    /\ now + d <= FillTime
    /\ Tick(d)

NextFill ==
    \/ \E t \in TaskIds : SubmitL(t)
    \/ \E t \in TaskIds : timeout_task(t)
    \/ \E t \in TaskIds : solve_start(t)
    \/ \E t \in TaskIds, o \in Outcomes : solve_return(t, o)
    \/ \E d \in TickSteps : AdvanceL(d)

SpecFill == Init /\ [][NextFill]_vars

(* SpecSnapshot: one round of the monitor on a drawn state of the scheduler.
   The state is the facade at time SnapNow: k tasks accepted 30 seconds
   before, the first of them in the Solver or none, a history of reported
   successes and failures, a breaker state that this history allows, and a
   last success 30, 600 or 630 seconds old (a task is accepted only within
   300 seconds of a success, so old successes come with no active task). *)
Histories ==
    {[s |-> 0, f |-> 0], [s |-> 0, f |-> 5], [s |-> 2, f |-> 8],
     [s |-> 3, f |-> 8], [s |-> 2, f |-> 9], [s |-> 3, f |-> 12]}
SuccessAges == {30, 600, 630}

SnapshotBreaker(h, st) ==
    [failure_count |-> IF st = "OPEN" THEN failure_threshold
                       ELSE IF st = "CLOSED" /\ h.f > 0 THEN 1 ELSE 0,
     last_failure_time |-> IF h.f > 0 THEN SnapNow - 90 ELSE 0,
     state |-> st]

InitSnapshot ==
    \E k \in 0..SnapActive, solving \in BOOLEAN, h \in Histories,
       st \in {"CLOSED", "OPEN", "HALF_OPEN"}, age \in SuccessAges :
        /\ k > 0 => age = 30
        /\ solving => k > 0
        /\ st # "CLOSED" => h.f >= failure_threshold
        /\ now = SnapNow
        /\ cur = 0
        /\ recover_pc = "idle"
        /\ circuit_breaker =
               [e \in Instances |->
                   IF e = 0 THEN SnapshotBreaker(h, st)
                   ELSE CircuitBreakerState]
        /\ stats =
               [e \in Instances |->
                   IF e = 0
                   THEN [total_tasks |-> h.s + h.f + k,
                         successful_tasks |-> h.s,
                         failed_tasks |-> h.f,
                         timeout_tasks |-> 0,
                         last_success |-> SnapNow - age]
                   ELSE NewStats(0)]
        /\ semaphore =
               [e \in Instances |->
                   IF e = 0 /\ solving THEN max_workers - 1 ELSE max_workers]
        /\ tasks = 1..k
        /\ active_tasks = 1..k
        /\ task_timeouts = 1..k
        /\ inst = [t \in TaskIds |-> 0]
        /\ pc = [t \in TaskIds |->
                    IF t > k THEN "none"
                    ELSE IF solving /\ t = 1 THEN "solving" ELSE "queued"]
        /\ timer = [t \in TaskIds |-> IF t > k THEN "none" ELSE "armed"]
        /\ deadline = [t \in TaskIds |->
                          IF t > k THEN 0
                          ELSE SnapNow - 30 + task_timeout_seconds]
        /\ delivered = [t \in TaskIds |-> <<>>]
        /\ callback = [taskId |-> 0, result |-> "", nth |-> 0]
        /\ callback_fn = "add_result"
        /\ store = [tasks |-> [t \in 1..k |-> SnapNow - 30],
                    results |-> EmptyDict,
                    last_clear |-> SnapNow - 30]
        /\ response = ""
        /\ consecutive_failures \in {0, restart_threshold - 1}
        /\ health_wake = SnapNow

NextSnapshot ==
    \/ health_monitor
    \/ auto_recover

SpecSnapshot == InitSnapshot /\ [][NextSnapshot]_vars

(* The store with recovery: the calls of SpecStore and, behind the REST
   facade of api_wrapper, the /reset route and the recovery it starts. *)
ResetS == callback_fn = "add_result" /\ force_reset

AdvanceR(d) == now + d <= RecoverTime /\ AdvanceS(d)

NextStoreRecover ==
    \/ \E t \in StoreIds : PutS(t)
    \/ \E t \in StoreIds, r \in StoreResults : DeliverS(t, r)
    \/ \E t \in StoreIds, k \in Keys : get_result(t, k)
    \/ cleanup_loop
    \/ ResetS
    \/ auto_recover
    \/ AdvanceR(clear_interval)

SpecStoreRecover == InitStore /\ [][NextStoreRecover]_vars

\* ================================================================ claims
\* steps that are a report of an outcome to the breaker of scheduler e
SuccessReport(e) ==
    stats'[e].successful_tasks = stats[e].successful_tasks + 1
FailureReport(e) ==
    stats'[e].failed_tasks = stats[e].failed_tasks + 1
\* steps that are a submission to the scheduler in use
Submission == stats'[cur].total_tasks = stats[cur].total_tasks + 1
\* the last call of callback_fn was the rejection of a submission
LastRejected ==
    callback.result \in {CircuitBreakerReason, OverloadedReason}

\* C1: the sink callback_fn is invoked at most once for every task id
C1_DeliveredAtMostOnce ==
    callback.nth <= 1

\* C2: at no time are more Solver calls in progress than max_workers,
\* also after timeouts and after a recovery replaced the scheduler
C2_SolverCallsBounded ==
    Cardinality({t \in TaskIds : pc[t] = "solving"}) <= max_workers

\* C3: a failure report in CLOSED that brings failure_count to the threshold
\* leaves the breaker OPEN and the admission check rejecting; below the
\* threshold a report in CLOSED leaves the breaker CLOSED
C3_OpensAtThreshold ==
    [][\A e \in Instances :
          circuit_breaker[e].state = "CLOSED" =>
            /\ FailureReport(e) /\ circuit_breaker[e].failure_count + 1 >= 5 =>
                 /\ circuit_breaker'[e].state = "OPEN"
                 /\ should_reject_task(circuit_breaker'[e], stats'[e], now')
            /\ FailureReport(e) /\ circuit_breaker[e].failure_count + 1 < 5 =>
                 circuit_breaker'[e].state = "CLOSED"
            /\ SuccessReport(e) => circuit_breaker'[e].state = "CLOSED"]_vars

C3_Witness ==
    /\ circuit_breaker[0].state = "OPEN"
    /\ circuit_breaker[0].failure_count = 5
    /\ stats[0].failed_tasks = 5
    /\ stats[0].successful_tasks = 0

\* C4: in HALF_OPEN a success report gives CLOSED with failure_count 0 and a
\* single failure report gives OPEN
C4_HalfOpenReports ==
    [][\A e \in Instances :
          circuit_breaker[e].state = "HALF_OPEN" =>
            /\ SuccessReport(e) =>
                 /\ circuit_breaker'[e].state = "CLOSED"
                 /\ circuit_breaker'[e].failure_count = 0
            /\ FailureReport(e) => circuit_breaker'[e].state = "OPEN"]_vars

C4_Witness ==
    /\ circuit_breaker[0].state = "OPEN"
    /\ circuit_breaker[0].failure_count = 1
    /\ stats[0].failed_tasks > 5

\* C5 as stated: every report (success or failure) made in OPEN more than
\* recovery_timeout after the last failure recorded before it gives
\* HALF_OPEN with failure_count 0
C5_RecoveryOnEveryReport ==
    [][\A e \in Instances :
          /\ SuccessReport(e) \/ FailureReport(e)
          /\ circuit_breaker[e].state = "OPEN"
          /\ now - circuit_breaker[e].last_failure_time > 60
          => /\ circuit_breaker'[e].state = "HALF_OPEN"
             /\ circuit_breaker'[e].failure_count = 0]_vars

\* C5 amended: a success report made in OPEN more than recovery_timeout
\* after the last failure gives HALF_OPEN with failure_count 0; a failure
\* report made in OPEN leaves the breaker OPEN and restarts the clock
C5_RecoveryOnSuccessReport ==
    [][\A e \in Instances :
          circuit_breaker[e].state = "OPEN" =>
            /\ SuccessReport(e)
                 /\ now - circuit_breaker[e].last_failure_time > 60
                 => /\ circuit_breaker'[e].state = "HALF_OPEN"
                    /\ circuit_breaker'[e].failure_count = 0
            /\ FailureReport(e)
                 => /\ circuit_breaker'[e].state = "OPEN"
                    /\ circuit_breaker'[e].last_failure_time = now]_vars

C5_Witness ==
    /\ circuit_breaker[0].state = "HALF_OPEN"
    /\ circuit_breaker[0].failure_count = 0
    /\ stats[0].last_success = now
    /\ now - circuit_breaker[0].last_failure_time > 60

\* C6: with 3 * max_workers tasks in the scheduler the next submission is
\* rejected as overloaded, is not recorded, gets no supervisor and takes no
\* worker slot
C6_RejectsAtThreeTimesWorkers ==
    [][\A t \in TaskIds :
          /\ add_task(t)
          /\ Cardinality(TasksOf(cur)) = 3 * max_workers
          /\ ~should_reject_task(circuit_breaker[cur], stats'[cur], now)
          => /\ callback' = [taskId |-> t, result |-> OverloadedReason,
                            nth |-> 1]
             /\ t \notin tasks'
             /\ t \notin active_tasks'
             /\ timer'[t] # "armed"
             /\ semaphore' = semaphore]_vars

\* C7: a submission made more than 300 seconds after the last success is
\* rejected whatever the breaker state; up to 300 seconds a submission that
\* passes the other checks is accepted
C7_NoRecentSuccessGuard ==
    [][\A t \in TaskIds :
          add_task(t) =>
            /\ now - stats[cur].last_success > 300 =>
                 /\ t \notin tasks'
                 /\ callback'.taskId = t
                 /\ callback'.result = CircuitBreakerReason
            /\ /\ now - stats[cur].last_success <= 300
               /\ circuit_breaker[cur].state # "OPEN"
               /\ ~HighFailureRate(stats'[cur])
               /\ ~Overloaded(cur)
               => /\ t \in tasks'
                  /\ callback' = callback]_vars

C7_Witness ==
    /\ callback = [taskId |-> 1, result |-> CircuitBreakerReason, nth |-> 1]
    /\ circuit_breaker[0].state = "CLOSED"
    /\ now - stats[0].last_success > 300
    /\ stats[0].successful_tasks > 0

\* C8 as stated: with the breaker not OPEN and a success in the last 300
\* seconds, a submission is rejected if and only if the counter of
\* submissions exceeds 10 and 10 * failed > 8 * (failed + succeeded)
C8_RateOverSubmissions ==
    [][\A t \in TaskIds :
          /\ add_task(t)
          /\ circuit_breaker[cur].state # "OPEN"
          /\ now - stats[cur].last_success <= 300
          /\ ~Overloaded(cur)
          => (t \notin tasks' <=>
                /\ stats'[cur].total_tasks > 10
                /\ 10 * stats[cur].failed_tasks >
                     8 * (stats[cur].failed_tasks
                          + stats[cur].successful_tasks))]_vars

\* C8 amended: ... if and only if the number of reported outcomes,
\* failed + succeeded, exceeds 10 and 10 * failed > 8 * (failed + succeeded)
C8_RateOverReports ==
    [][\A t \in TaskIds :
          /\ add_task(t)
          /\ circuit_breaker[cur].state # "OPEN"
          /\ now - stats[cur].last_success <= 300
          /\ ~Overloaded(cur)
          => (t \notin tasks' <=>
                /\ stats[cur].failed_tasks + stats[cur].successful_tasks > 10
                /\ 10 * stats[cur].failed_tasks >
                     8 * (stats[cur].failed_tasks
                          + stats[cur].successful_tasks))]_vars

C8_Witness ==
    /\ callback.result = CircuitBreakerReason
    /\ circuit_breaker[0].state # "OPEN"
    /\ now - stats[0].last_success <= 300
    /\ stats[0].failed_tasks + stats[0].successful_tasks > 10
    /\ stats[0].total_tasks =
           stats[0].failed_tasks + stats[0].successful_tasks + 1

\* C9: a rejection carries the reason of the first failing check; the
\* circuit-breaker reason is given if and only if the breaker is OPEN
C9_BreakerReasonOnlyWhenOpen ==
    [][\A t \in TaskIds :
          add_task(t) =>
            ((t \notin tasks' /\ callback'.result = CircuitBreakerReason)
               <=> circuit_breaker[cur].state = "OPEN")]_vars

\* C10: a submission, accepted or rejected, leaves the breaker (state,
\* failure_count, last_failure_time) and the failed-task counter as they were
C10_AdmissionLeavesBreaker ==
    [][Submission =>
          /\ circuit_breaker' = circuit_breaker
          /\ \A e \in Instances :
                stats'[e].failed_tasks = stats[e].failed_tasks]_vars

C10_Witness ==
    /\ LastRejected
    /\ circuit_breaker[0].state = "OPEN"
    /\ circuit_breaker[0].failure_count = 5
    /\ stats[0].failed_tasks = 5
    /\ stats[0].total_tasks > 6
\* C11: a supervisor that fires for a task still in the active set counts one
\* timeout, removes the task from the active set and delivers 'Task timeout',
\* all in one step; no other step counts a timeout or delivers one; the
\* supervisor of a task whose solve ends first is cancelled; and a task gets
\* at most one timeout
C11_TimeoutSupervisor ==
    [][/\ \A t \in TaskIds :
            /\ timeout_task(t) /\ t \in active_tasks =>
                 /\ now = deadline[t]
                 /\ stats'[inst[t]].timeout_tasks
                        = stats[inst[t]].timeout_tasks + 1
                 /\ t \notin active_tasks'
                 /\ callback' = [taskId |-> t, result |-> "Task timeout",
                                 nth |-> 1]
                 /\ timer'[t] = "none"
            /\ pc[t] # "none" /\ pc'[t] = "none" => timer'[t] = "none"
            /\ Len(delivered'[t]) <= 1
       /\ (\/ \E e \in Instances :
                stats'[e].timeout_tasks # stats[e].timeout_tasks
           \/ \E t \in TaskIds : Len(delivered'[t]) > Len(delivered[t]))
          => \E t \in TaskIds :
                /\ timer[t] = "armed"
                /\ timer'[t] = "none"
                /\ t \in active_tasks
                /\ now >= deadline[t]
                /\ callback'.taskId = t]_vars

C11_Witness ==
    /\ callback.result = "Task timeout"
    /\ callback.taskId = 1
    /\ stats[0].timeout_tasks = 1
    /\ pc[1] = "solving"
    /\ 1 \notin active_tasks
    /\ now = 120

StoreCall ==
    \/ \E t \in StoreIds : PutS(t)
    \/ \E t \in StoreIds, r \in StoreResults : DeliverS(t, r)
    \/ \E t \in StoreIds, k \in Keys : get_result(t, k)
\* the error of a lookup that finds nothing
NotFound ==
    IF callback_fn = "add_result"
    THEN "Response expired or task not exists"
    ELSE "Task not found or expired"

\* C13: after any sequence of puts, deliveries, lookups, sweeps and
\* recoveries, no task id is in the map of active tasks and in the map of
\* results
C13_StoreMapsDisjoint ==
    DOMAIN store.tasks \cap DOMAIN store.results = {}

C13_Witness ==
    /\ callback_fn = "add_result"
    /\ cur = 1
    /\ recover_pc = "idle"
    /\ 1 \in DOMAIN store.results
    /\ store.results[1].result = "Task expired"
    /\ 2 \in DOMAIN store.tasks
    /\ store.tasks[2] < store.results[1].t

\* C14 as stated, for the store of app_tasker: a stored result stays as it is
\* while its entry exists; a result is inserted in the step that removes the
\* id from the active map; a delivery for an id that is not in the active
\* map leaves both maps unchanged
C14_LateDeliveryChangesNothing ==
    [][callback_fn = "add_result" =>
         \A t \in StoreIds :
            /\ t \in DOMAIN store.results /\ t \in DOMAIN store'.results
                 => store'.results[t] = store.results[t]
            /\ t \notin DOMAIN store.results /\ t \in DOMAIN store'.results
                 => t \in DOMAIN store.tasks /\ t \notin DOMAIN store'.tasks
            /\ \A r \in StoreResults :
                 DeliverS(t, r) /\ t \notin DOMAIN store.tasks
                 => /\ store'.tasks = store.tasks
                    /\ store'.results = store.results]_vars

\* C14 amended: ... a delivery for an id that is not in the active map
\* changes the maps only by the sweep that the call runs when it is due
C14_LateDeliveryOnlySweeps ==
    [][callback_fn = "add_result" =>
         \A t \in StoreIds :
            /\ t \in DOMAIN store.results /\ t \in DOMAIN store'.results
                 => store'.results[t] = store.results[t]
            /\ t \notin DOMAIN store.results /\ t \in DOMAIN store'.results
                 => t \in DOMAIN store.tasks /\ t \notin DOMAIN store'.tasks
            /\ \A r \in StoreResults :
                 DeliverS(t, r) /\ t \notin DOMAIN store.tasks
                 => IF now - store.last_clear > 30
                    THEN store' = clear_expired(store, now)
                    ELSE store' = store]_vars

C14_Witness ==
    /\ callback_fn = "add_result"
    /\ 1 \in DOMAIN store.results
    /\ store.results[1] = [t |-> 0, result |-> "ready"]
    /\ 2 \in DOMAIN store.results
    /\ store.results[2].result = "Task expired"
    /\ store.last_clear = now
    /\ now = 300

\* C15: a lookup with a valid key returns the stored result of an id in the
\* result map, else 'processing' for an id in the active map, else the
\* not-found error; 'processing' only for ids in the active map and a stored
\* result only for ids in the result map
C15_LookupPrecedence ==
    [][\A t \in StoreIds :
          get_result(t, "valid") =>
            /\ response' =
                 IF t \in DOMAIN store.results THEN store.results[t].result
                 ELSE IF t \in DOMAIN store.tasks THEN "processing"
                 ELSE NotFound
            /\ response' = "processing" => t \in DOMAIN store.tasks
            /\ response' \in StoreResults \cup {"Task expired"}
                 => t \in DOMAIN store.results]_vars

C15_Witness ==
    /\ response = "processing"
    /\ DOMAIN store.tasks = {2}
    /\ DOMAIN store.results = {1}
    /\ store.results[1].result = "Task expired"

\* C16: a lookup of an id whose result was stored more than 300 seconds
\* before reports not-found
C16_OldResultNotFound ==
    [][\A t \in StoreIds :
          /\ get_result(t, "valid")
          /\ t \in DOMAIN store.results
          /\ now - store.results[t].t > 300
          => response' = NotFound]_vars

\* C17: for the store of app_tasker, a call sweeps if and only if more than
\* 30 seconds have passed since the last sweep, nothing else sweeps, and a
\* sweep makes every task older than 120 seconds a 'Task expired' result
\* (but the one whose result the call delivers) and deletes every result
\* older than 300 seconds
C17_SweepGate ==
    [][callback_fn = "add_result" =>
         /\ store'.last_clear # store.last_clear =>
              /\ StoreCall
              /\ now - store.last_clear > 30
              /\ store'.last_clear = now
         /\ StoreCall /\ now - store.last_clear > 30 =>
              /\ store'.last_clear = now
              /\ \A t \in DOMAIN store.tasks :
                    now - store.tasks[t] > 120 =>
                      /\ t \notin DOMAIN store'.tasks
                      /\ t \in DOMAIN store'.results
                      /\ \/ store'.results[t] =
                               [t |-> now, result |-> "Task expired"]
                         \/ \E r \in StoreResults : DeliverS(t, r)
              /\ \A t \in DOMAIN store.results :
                    now - store.results[t].t > 300 =>
                      t \notin DOMAIN store'.results
         /\ StoreCall /\ now - store.last_clear <= 30 =>
              /\ \A t \in DOMAIN store.tasks :
                    t \in DOMAIN store'.tasks
                    \/ \E r \in StoreResults : DeliverS(t, r)
              /\ \A t \in DOMAIN store.results :
                    t \in DOMAIN store'.results]_vars

C17_Witness ==
    /\ callback_fn = "add_result"
    /\ store.last_clear = now
    /\ now = 330
    /\ DOMAIN store.results = {2}
    /\ store.results[2] = [t |-> 330, result |-> "Task expired"]
    /\ DOMAIN store.tasks = {}
\* C19: a flagged round of the monitor adds one to the counter and an
\* unflagged round sets it to 0; the round that makes the counter 5 starts
\* the recovery, after which the counter is 0; the monitor starts no recovery
\* before the counter is 5, and the counter never exceeds 5
C19_CounterProtocol ==
    [][/\ health_monitor =>
            IF issues(health_check(cur)) # {}
            THEN /\ consecutive_failures' = consecutive_failures + 1
                 /\ recover_pc' = "monitor" <=> consecutive_failures' = 5
            ELSE /\ consecutive_failures' = 0
                 /\ recover_pc' = recover_pc
       /\ recover_pc = "monitor" /\ auto_recover =>
            /\ consecutive_failures' = 0
            /\ cur' = cur + 1
            /\ store'.tasks = EmptyDict /\ store'.results = EmptyDict
       /\ recover_pc # "monitor" /\ recover_pc' = "monitor" =>
            /\ health_monitor
            /\ consecutive_failures = 4
            /\ issues(health_check(cur)) # {}
       /\ consecutive_failures' # consecutive_failures =>
            health_monitor \/ (recover_pc = "monitor" /\ auto_recover)
       /\ consecutive_failures' <= 5]_vars

C19_Witness ==
    /\ consecutive_failures = 0
    /\ cur = 1
    /\ recover_pc = "idle"
    /\ now = 150
    /\ health_wake = 180
    /\ pc[1] = "solving"
\* C20: a round of the monitor is flagged if and only if, in the state it
\* reads, the breaker is OPEN, or the last success is more than 600 seconds
\* old, or more than 10 tasks were submitted and fewer than 20 percent of
\* them succeeded, or more than 2 x max_workers tasks are active, or no slot
\* is free
C20_IssueDetection ==
    [][health_monitor =>
         (consecutive_failures' = consecutive_failures + 1
          <=> \/ circuit_breaker[cur].state = "OPEN"
              \/ now - stats[cur].last_success > 600
              \/ /\ stats[cur].total_tasks > 10
                 /\ 100 * stats[cur].successful_tasks
                      < 20 * stats[cur].total_tasks
              \/ Cardinality({t \in active_tasks : inst[t] = cur})
                   > 2 * max_workers
              \/ semaphore[cur] = 0)]_vars

C20_Witness ==
    /\ consecutive_failures = 1
    /\ health_wake = now + 30
    /\ stats[0].total_tasks = 11
    /\ stats[0].successful_tasks = 2
    /\ circuit_breaker[0].state = "CLOSED"
    /\ now - stats[0].last_success = 30
    /\ Cardinality(active_tasks) = 1
    /\ semaphore[0] = 1
C29_ClosedSuccessDecrements ==
    [][\A t \in TaskIds :
          LET cb == circuit_breaker[inst[t]]
              cbn == circuit_breaker'[inst[t]]
          IN  /\ (solve_return(t, "token") /\ cb.state = "CLOSED") =>
                   /\ cbn.state = "CLOSED"
                   /\ cbn.failure_count =
                        IF cb.failure_count = 0 THEN 0
                        ELSE cb.failure_count - 1
              /\ (/\ \E o \in Outcomes : solve_return(t, o)
                  /\ cb.state = "CLOSED"
                  /\ cbn.state = "OPEN") =>
                   /\ ~solve_return(t, "token")
                   /\ cb.failure_count = 4
                   /\ cbn.failure_count = 5]_vars

C29_Witness ==
    /\ circuit_breaker[0].state = "CLOSED"
    /\ circuit_breaker[0].failure_count = 0
    /\ stats[0].failed_tasks = 3
    /\ stats[0].successful_tasks = 4
    /\ callback.result = "ready"

\* C30: the step in which the supervisor ends a task adds one to the
\* timeout counter and leaves every other counter, the time of the last
\* success and the breaker as they were
C30_TimeoutCountedApart ==
    [][\A t \in TaskIds :
          (timeout_task(t) /\ t \in active_tasks) =>
             /\ stats'[inst[t]].timeout_tasks =
                   stats[inst[t]].timeout_tasks + 1
             /\ stats'[inst[t]].failed_tasks = stats[inst[t]].failed_tasks
             /\ stats'[inst[t]].successful_tasks =
                   stats[inst[t]].successful_tasks
             /\ stats'[inst[t]].last_success = stats[inst[t]].last_success
             /\ stats'[inst[t]].total_tasks = stats[inst[t]].total_tasks
             /\ \A e \in Instances \ {inst[t]} : stats'[e] = stats[e]
             /\ circuit_breaker' = circuit_breaker]_vars

C30_Witness ==
    /\ callback.result = "Task timeout"
    /\ stats[0].timeout_tasks = 1
    /\ stats[0].failed_tasks = 1
    /\ stats[0].successful_tasks = 0
    /\ circuit_breaker[0].failure_count = 1
\* C26: a solve coroutine that gets its slot after the task left the active
\* set ends at once: the Solver is not called, the slot is free again, no
\* result is delivered and neither the breaker nor the counters change
C26_RemovedTaskNotSolved ==
    [][\A t \in TaskIds :
          /\ (pc[t] = "queued" /\ pc'[t] = "solving") => t \in active_tasks
          /\ (solve_start(t) /\ t \notin active_tasks) =>
               /\ pc'[t] = "none"
               /\ semaphore' = semaphore
               /\ callback' = callback
               /\ store' = store
               /\ circuit_breaker' = circuit_breaker
               /\ stats' = stats]_vars

C26_Witness ==
    /\ pc[2] = "none"
    /\ timer[2] = "none"
    /\ callback = [taskId |-> 2, result |-> "Task timeout", nth |-> 1]
    /\ stats[0].total_tasks = 2
    /\ stats[0].timeout_tasks = 2
    /\ stats[0].successful_tasks + stats[0].failed_tasks = 1
    /\ now = 120

\* C27: when a solve coroutine ends, its task is in neither the task map,
\* the active set nor the supervisor map, its supervisor is not running and
\* the slot it held is free; the free slots of a scheduler are its capacity
\* less its solves inside the Solver
C27_CleanupOnEveryExit ==
    [][/\ \A t \in TaskIds :
            (pc[t] # "none" /\ pc'[t] = "none") =>
               /\ t \notin tasks'
               /\ t \notin active_tasks'
               /\ t \notin task_timeouts'
               /\ timer'[t] = "none"
               /\ semaphore'[inst[t]] =
                     semaphore[inst[t]] + (IF pc[t] = "solving" THEN 1 ELSE 0)
       /\ \A e \in Instances :
            semaphore'[e] = max_workers
               - Cardinality({t \in TaskIds :
                                 pc'[t] = "solving" /\ inst'[t] = e})]_vars

C27_Witness ==
    /\ pc = [t \in TaskIds |-> "none"]
    /\ callback = [taskId |-> 2, result |-> "exception", nth |-> 1]
    /\ stats[0].failed_tasks = 1
    /\ stats[0].successful_tasks = 1
    /\ semaphore[0] = max_workers
    /\ tasks = {}

\* C21: when a recovery completes, the maps of the store are empty, the
\* scheduler in use has no active task and no armed supervisor, a CLOSED
\* breaker with failure_count 0, zeroed counters and all its slots, and its
\* sink is add_result; a timeout result is delivered only by a supervisor of
\* the scheduler in use, never by one armed before the last recovery
\* completed
C21_StateAfterRecovery ==
    [][/\ auto_recover =>
            /\ store'.tasks = EmptyDict
            /\ store'.results = EmptyDict
            /\ {t \in active_tasks' : inst'[t] = cur'} = {}
            /\ {t \in TaskIds : inst'[t] = cur' /\ timer'[t] = "armed"} = {}
            /\ circuit_breaker'[cur'] = CircuitBreakerState
            /\ stats'[cur'] = NewStats(now)
            /\ semaphore'[cur'] = max_workers
            /\ callback_fn' = "add_result"
       /\ \A t \in TaskIds :
            (callback' # callback /\ callback'.taskId = t
                /\ callback'.result = "Task timeout") => inst[t] = cur]_vars

\* C22: when the recovery started by POST /reset completes, the maps of the
\* store are empty, the breaker is fresh, a new scheduler is in use and the
\* counter of the monitor is 0
C22_OperatorReset ==
    [][(recover_pc = "cleanup" /\ auto_recover) =>
         /\ store'.tasks = EmptyDict
         /\ store'.results = EmptyDict
         /\ cur' = cur + 1
         /\ circuit_breaker'[cur'] = CircuitBreakerState
         /\ consecutive_failures' = 0]_vars

\* C23: a solve coroutine of a replaced scheduler has no entry in the maps
\* of the store, its return adds none, and its outcome changes neither the
\* breaker nor the statistics of the scheduler in use
C23_LateResultsDiscarded ==
    [][\A t \in TaskIds :
          /\ (pc'[t] # "none" /\ inst'[t] < cur') =>
               /\ t \notin DOMAIN store'.tasks
               /\ t \notin DOMAIN store'.results
          /\ \A o \in Outcomes :
               (solve_return(t, o) /\ inst[t] < cur) =>
                  /\ t \notin DOMAIN store'.tasks
                  /\ t \notin DOMAIN store'.results
                  /\ circuit_breaker'[cur] = circuit_breaker[cur]
                  /\ stats'[cur] = stats[cur]]_vars

C23_Witness ==
    /\ cur = 1
    /\ recover_pc = "idle"
    /\ callback = [taskId |-> 1, result |-> "ready", nth |-> 1]
    /\ pc[1] = "none"
    /\ stats[0].successful_tasks = 1
    /\ stats[0].last_success > stats[1].last_success
    /\ stats[1].successful_tasks = 0
    /\ circuit_breaker[1] = CircuitBreakerState
    /\ store.tasks = EmptyDict
    /\ store.results = EmptyDict

\* C25: between the first change of a recovery and its last nothing else
\* runs, and a task that a scheduler holds active is in the active map of
\* the store (no accepted task is dropped from the store)
C25_RecoveryAtomic ==
    [][/\ recover_pc # "idle" => auto_recover
       /\ \A t \in active_tasks' : t \in DOMAIN store'.tasks]_vars

\* C24: the step that accepts a submission decides on the count of recorded
\* tasks it finds and records the task in the same step: the task is in the
\* task map and the active set of the scheduler and counts at once, while it
\* holds no worker slot; nothing else moves in that step, so no two
\* submissions are accepted against the same count and a scheduler never
\* holds more than one task above the count at which it rejects
C24_AdmissionAtomic ==
    [][/\ \A t \in TaskIds :
            (pc[t] = "none" /\ pc'[t] = "queued") =>
               /\ ~Overloaded(cur)
               /\ t \notin tasks
               /\ {u \in tasks' : inst'[u] = cur'} = TasksOf(cur) \cup {t}
               /\ {u \in active_tasks' : inst'[u] = cur'}
                      = ActiveOf(cur) \cup {t}
               /\ semaphore' = semaphore
               /\ \A u \in TaskIds \ {t} : pc'[u] = pc[u]
               /\ callback' = callback
       /\ \A e \in Instances :
            Cardinality({u \in tasks' : inst'[u] = e})
               <= max_workers * overload_factor + 1]_vars

C24_Witness ==
    /\ pc[1] = "solving"
    /\ \A t \in 2..(max_workers * overload_factor + 1) : pc[t] = "queued"
    /\ semaphore[0] = 0
    /\ Cardinality(TasksOf(0)) = max_workers * overload_factor + 1
    /\ callback = [taskId |-> max_workers * overload_factor + 2,
                   result |-> OverloadedReason, nth |-> 1]

\* C31: the end of a Solver call for a task that is no longer in the active
\* set (timed out or cleared by a reset while the Solver ran) changes neither
\* the breaker of its scheduler nor its successful and failed counters
C31_OnlyActiveTasksReport ==
    [][\A t \in TaskIds :
          (pc[t] = "solving" /\ pc'[t] = "none" /\ t \notin active_tasks)
          => /\ circuit_breaker'[inst[t]] = circuit_breaker[inst[t]]
             /\ stats'[inst[t]].successful_tasks
                    = stats[inst[t]].successful_tasks
             /\ stats'[inst[t]].failed_tasks
                    = stats[inst[t]].failed_tasks]_vars

\* C32: in every state and for every scheduler the outcome counters add up
\* to at most the number of submissions
C32_OutcomesWithinTotal ==
    \A e \in Instances :
        stats[e].successful_tasks + stats[e].failed_tasks
            + stats[e].timeout_tasks <= stats[e].total_tasks

\* C33: in every state and for every scheduler the number of occupied slots
\* is at most the number of its active tasks
C33_SlotsBelongToActiveTasks ==
    \A e \in Instances :
        max_workers - semaphore[e] <= Cardinality(ActiveOf(e))

\* a task of scheduler e is waiting for a slot or in the Solver
InFlight(e) ==
    \E t \in TaskIds : inst[t] = e /\ pc[t] \in {"queued", "solving"}

\* C34: while the breaker of a scheduler is OPEN, a submission to it is
\* rejected and records nothing, a failure report leaves it OPEN with the
\* time of that report as last failure, a success report made no more than
\* recovery_timeout after the last failure leaves state and failure_count
\* as they are, the state changes only with a success report made later
\* than that or with a reset of the scheduler, and with no task in flight
\* nothing but a reset changes the breaker
C34_LeavingOpen ==
    [][\A e \in Instances :
          circuit_breaker[e].state = "OPEN" =>
            LET cb == circuit_breaker[e]
                reset == e = cur /\ recover_pc = "idle" /\ recover_pc' # "idle"
                late == now - cb.last_failure_time > recovery_timeout
            IN  /\ (e = cur /\ Submission)
                     => /\ callback'.result = CircuitBreakerReason
                        /\ callback'.nth = 1
                        /\ tasks' = tasks
                        /\ active_tasks' = active_tasks
                        /\ circuit_breaker'[e] = cb
                /\ FailureReport(e)
                     => /\ circuit_breaker'[e].state = "OPEN"
                        /\ circuit_breaker'[e].last_failure_time = now
                /\ (SuccessReport(e) /\ ~late)
                     => /\ circuit_breaker'[e].state = "OPEN"
                        /\ circuit_breaker'[e].failure_count
                               = cb.failure_count
                /\ circuit_breaker'[e].state # "OPEN"
                     => (SuccessReport(e) /\ late) \/ reset
                /\ (~InFlight(e) /\ ~reset) => circuit_breaker'[e] = cb]_vars

C34_Witness ==
    /\ cur = 0
    /\ recover_pc = "idle"
    /\ now = OpenTime
    /\ circuit_breaker[0] = [failure_count |-> failure_threshold,
                             last_failure_time |-> 0, state |-> "OPEN"]
    /\ ~InFlight(0)
    /\ stats[0].successful_tasks = 1
    /\ stats[0].total_tasks > failure_threshold + 1
    /\ callback.result = CircuitBreakerReason

\* C35: once more than 300 seconds have passed since the last success of a
\* scheduler (or since it was built) and none of its tasks is in flight,
\* every submission to it is rejected and records nothing, its last_success
\* does not change, and both conditions still hold after every step; a task
\* is accepted again only by the scheduler a recovery builds
C35_GuardAbsorbing ==
    [][\A e \in 0..cur :
          (NoRecentSuccess(stats[e], now) /\ ~InFlight(e)) =>
             /\ (e = cur /\ Submission)
                  => /\ callback'.result = CircuitBreakerReason
                     /\ callback'.nth = 1
                     /\ tasks' = tasks
                     /\ active_tasks' = active_tasks
             /\ stats'[e].last_success = stats[e].last_success
             /\ NoRecentSuccess(stats'[e], now')
             /\ \A t \in TaskIds :
                  pc'[t] \in {"queued", "solving"} =>
                     /\ pc[t] \in {"queued", "solving"} \/ inst'[t] = cur'
                     /\ inst'[t] # e]_vars

C35_Witness ==
    /\ cur = 1
    /\ recover_pc = "idle"
    /\ now - stats[0].last_success > no_success_window
    /\ stats[0].total_tasks = 2
    /\ stats[0].successful_tasks = 1
    /\ callback.result = CircuitBreakerReason
    /\ pc[1] = "queued"
    /\ inst[1] = 1

\* C36: a round of the monitor on a scheduler that no task was ever
\* submitted to finds no issue: it leaves the counter at 0 and starts no
\* recovery
C36_IdleIsHealthy ==
    [][(/\ stats[cur].total_tasks = 0
        /\ recover_pc = "idle"
        /\ health_wake' # health_wake \/ recover_pc' = "monitor")
        => /\ consecutive_failures' = 0
           /\ recover_pc' = "idle"]_vars

\* C37: in every state the task map of a scheduler holds at most
\* 3 * max_workers + 1 tasks
C37_TasksBounded ==
    \A e \in Instances :
        Cardinality(TasksOf(e)) <= max_workers * overload_factor + 1

C37_Witness ==
    /\ Cardinality(TasksOf(0)) = max_workers * overload_factor + 1
    /\ stats[0].timeout_tasks = 1
    /\ stats[0].total_tasks = max_workers * overload_factor + 2
    /\ callback.result = "Task timeout"

\* C38: in the store of api_server a result that is stored for a task id is
\* not replaced by a later delivery: while the entry exists, its result
\* (what getTaskResult returns for the id) stays the same
C38_StoredResultNotReplaced ==
    [][callback_fn = "_task_completed" =>
         \A t \in TaskIds :
            (t \in DOMAIN store.results /\ t \in DOMAIN store'.results)
            => /\ store'.results[t].result = store.results[t].result
               /\ get_task_result_response(store', t, "valid")
                     = get_task_result_response(store, t, "valid")]_vars

\* C39: in api_wrapper the step that rejects a submission leaves the id out
\* of the active map of the store and leaves the error result with the
\* reason of the rejection in the result map, so a lookup made right after
\* it returns that result and not "processing"
C39_RejectionNeverProcessing ==
    [][(callback_fn = "add_result" /\ Submission
           /\ callback' # callback
           /\ callback'.result \in {CircuitBreakerReason, OverloadedReason})
        => LET t == callback'.taskId IN
           /\ t \notin DOMAIN store.tasks
           /\ t \notin DOMAIN store'.tasks
           /\ t \in DOMAIN store'.results
           /\ store'.results[t] = [t |-> now, result |-> callback'.result]
           /\ get_result_response(store', t, "valid") = callback'.result
           /\ pc'[t] = "none"
           /\ t \notin tasks'
           /\ t \notin active_tasks']_vars

C39_Witness ==
    /\ callback_fn = "add_result"
    /\ callback.result = CircuitBreakerReason
    /\ callback.taskId \in DOMAIN store.results
    /\ store.results[callback.taskId].result = CircuitBreakerReason
    /\ store.results[callback.taskId].t = now
    /\ callback.taskId \notin DOMAIN store.tasks
    /\ circuit_breaker[cur].state = "OPEN"
    /\ get_result_response(store, callback.taskId, "valid")
          = CircuitBreakerReason

\* C40: in every state a CLOSED breaker has a failure_count below
\* failure_threshold, and a breaker whose failure_count is at or above the
\* threshold is OPEN
C40_ClosedBelowThreshold ==
    \A e \in Instances :
        /\ circuit_breaker[e].state = "CLOSED"
             => circuit_breaker[e].failure_count < failure_threshold
        /\ circuit_breaker[e].failure_count >= failure_threshold
             => circuit_breaker[e].state = "OPEN"

C40_Witness ==
    /\ circuit_breaker[0].state = "CLOSED"
    /\ circuit_breaker[0].failure_count = failure_threshold - 1
    /\ stats[0].failed_tasks >= failure_threshold
    /\ stats[0].successful_tasks >= 1
====
